---- MODULE Spec2Model ----
(***************************************************************************)
(* Model of catalogue_scraper.py: a harvest run (main) followed by the     *)
(* CSV export, repeated against the same SQLite database.                  *)
(*                                                                         *)
(* Text is modelled as a sequence of one-character strings.  The remote    *)
(* site is fixed for the whole behaviour (Init chooses the two sitemap     *)
(* documents); what varies from run to run is the outcome of each HTTP GET *)
(* and the interleaving of the coroutines at their await points.           *)
(***************************************************************************)
EXTENDS Integers, Sequences, FiniteSets, TLC

(* ---------------------------- bounds ---------------------------------- *)
\* number of times the process is run against the same scraped_data.db
MaxRuns == 2
\* largest number of <loc> elements in one sitemap document
MaxLocs == 2
\* largest number of <loc> elements in the two sitemap documents together
MaxLinks == 3
\* largest number of att_val_22 rows of a page handed to the extraction alone
MaxRows == 4

(* ------------------------- program constants --------------------------- *)
\* stop_after_attempt(5) of the decorator on save_to_sqlite
StopAfterAttempt == 5
\* main: the urls list holds two seed sitemaps
NumSeeds == 2

\* the None a failed fetch_url returns, written as a document no site serves
None == << <<"None", "None">> >>
Seeds == 1..NumSeeds

\* the exception classes imported from curl_cffi.requests.exceptions
ConnectionError == "ConnectionError"
HTTPError == "HTTPError"
\* What session.get raises: a ConnectionError, or an exception of another
\* class (a Timeout, say).  A response with an HTTP error status is returned,
\* not raised: the code never calls raise_for_status.
Timeout == "Timeout"
GetExceptions == {ConnectionError, Timeout}
\* the tuple given to retry_if_exception_type
RetryExceptionTypes == {ConnectionError, HTTPError}

(* ------------------------------ text ----------------------------------- *)
\* the whitespace str.strip() removes (the pages of the model hold only blanks)
Whitespace == {" "}

RECURSIVE LStrip(_, _)
LStrip(s, chars) ==
  IF s # <<>> /\ Head(s) \in chars THEN LStrip(Tail(s), chars) ELSE s

RECURSIVE RStrip(_, _)
RStrip(s, chars) ==
  IF s # <<>> /\ s[Len(s)] \in chars
  THEN RStrip(SubSeq(s, 1, Len(s) - 1), chars) ELSE s

\* str.strip(): whitespace removed from both ends
Strip(s) == RStrip(LStrip(s, Whitespace), Whitespace)

\* str.strip(','): commas removed from both ends
StripCommas(s) == RStrip(LStrip(s, {","}), {","})

EndsWithComma(s) == s # <<>> /\ s[Len(s)] = ","

\* ', '.join(parts)
RECURSIVE Join(_)
Join(parts) ==
  IF parts = <<>> THEN <<>>
  ELSE IF Len(parts) = 1 THEN parts[1]
  ELSE parts[1] \o <<",", " ">> \o Join(Tail(parts))

\* variant: one pass instead of the loop
strip_itOnce(inp) ==
  IF EndsWithComma(Strip(inp)) THEN StripCommas(Strip(inp)) ELSE inp

RECURSIVE strip_it(_)
strip_it(inp) ==
  IF EndsWithComma(Strip(inp)) THEN strip_it(StripCommas(Strip(inp))) ELSE inp

\* s.encode("utf-8", "ignore").decode("utf-8"): code points that have no
\* UTF-8 encoding (lone surrogates, written "?" here) are dropped
Encodable(c) == c # "?"
Sanitize(s) == SelectSeq(s, Encodable)

(* --------------------------- the remote site --------------------------- *)
\* the page URLs the sitemaps can list
Links == {"/p", "/r", "/e", "/b"}

\* A catalogue page: the text of the cell after "Part-no." and the
\* (column 1, column 2) cell texts of the att_val_22 rows.  The text of "/b"
\* holds a code point that has no UTF-8 encoding.
PageOf(link) ==
  CASE link = "/p" -> [part_cell |-> <<" ", "X">>, rows |-> <<>>]
    [] link = "/r" -> [part_cell |-> <<>>,
                       rows |-> << <<<<"A">>, <<"O", " ">>>>, <<<<>>, <<>>>> >>]
    [] link = "/e" -> [part_cell |-> <<" ">>,
                       rows |-> << <<<<>>, <<" ">>>>, <<<<>>, <<>>>> >>]
    [] OTHER -> [part_cell |-> <<"?">>, rows |-> <<>>]

\* A sitemap document is a sequence of elements <<tag, text>>; every <loc> is
\* followed by a <lastmod>.  The empty sequence is the empty text.
RECURSIVE SitemapOf(_)
SitemapOf(ls) ==
  IF ls = <<>> THEN <<>>
  ELSE << <<"loc", Head(ls)>>, <<"lastmod", "d">> >> \o SitemapOf(Tail(ls))

LinkSeqs == UNION {[1..n -> Links] : n \in 0..MaxLocs}
SitemapDocs == {SitemapOf(ls) : ls \in LinkSeqs} \cup {<< <<"lastmod", "d">> >>}

(* ----------------------------- extraction ------------------------------ *)
IsLoc(el) == el[1] = "loc"

RECURSIVE Texts(_)
Texts(els) == IF els = <<>> THEN <<>> ELSE <<Head(els)[2]>> \o Texts(Tail(els))

\* extract_links: selector.css("loc::text").getall()
extract_links(page) == Texts(SelectSeq(page, IsLoc))

\* Selector(text=content, encoding="utf-8") encodes the text strictly and
\* raises on a code point it cannot encode
Parses(content) ==
  /\ Sanitize(content.part_cell) = content.part_cell
  /\ \A k \in 1..Len(content.rows) :
        /\ Sanitize(content.rows[k][1]) = content.rows[k][1]
        /\ Sanitize(content.rows[k][2]) = content.rows[k][2]

RECURSIVE Column(_, _)
Column(rows, n) ==
  IF rows = <<>> THEN <<>> ELSE <<Strip(Head(rows)[n])>> \o Column(Tail(rows), n)

\* fetch_contents, the extraction between the GET and the test of the fields
ExtractFields(content) ==
  [part_no |-> Strip(content.part_cell),
   adaptable_for |-> strip_it(Join(Column(content.rows, 1))),
   orig_part_no |-> strip_it(Join(Column(content.rows, 2)))]

\* the fields of a link task that has extracted nothing (yet)
NoFields ==
  [part_no |-> <<"None">>, adaptable_for |-> <<"None">>, orig_part_no |-> <<"None">>]

\* variant: the test of the fields is missing
AnyFieldAlways(f) == TRUE

\* if part_no or adaptable_for or orig_part_no
AnyField(f) == f.part_no # <<>> \/ f.adaptable_for # <<>> \/ f.orig_part_no # <<>>

\* save_to_sqlite: the row handed to the INSERT
RowOf(url, f) ==
  [url |-> url, part_no |-> Sanitize(f.part_no),
   adaptable_for |-> Sanitize(f.adaptable_for),
   orig_part_no |-> Sanitize(f.orig_part_no)]

\* bool(page) in "for page in pages if page"
Truthy(page) == page # None /\ page # <<>>

RECURSIVE Flatten(_)
Flatten(lists) == IF lists = <<>> THEN <<>> ELSE Head(lists) \o Flatten(Tail(lists))

\* variant: the results are returned in completion order
GatherAsCompleted(res) == [i \in 1..Len(res) |-> res[i][2]]

\* tqdm_asyncio.gather: the (index, result) pairs, collected as the tasks
\* complete, are sorted and the results returned by submission index
GatherResults(res) ==
  [i \in 1..Len(res) |-> res[CHOOSE k \in 1..Len(res) : res[k][1] = i][2]]

(* ------------------------------- state --------------------------------- *)
VARIABLES
  sitemapDoc,     \* seed -> the document the site serves for that sitemap
  run,            \* which run of the process this is
  mainPc,         \* where main (and then __main__) stands
  store,          \* the committed rows of table pages, in id order
  lock,           \* the link task whose connection holds the write lock, or 0
  existing_urls,  \* main's existing_urls
  seedPc,         \* seed -> state of its fetch_url task
  seedGets,       \* seed -> number of GETs issued for it in this run
  seedRes,        \* (index, result) pairs of the fetch_url tasks, as completed
  pages,          \* main's pages
  exRes,          \* (index, result) pairs of the extract_links tasks, as completed
  links,          \* main's extracted_sitemap_links
  taskPc,         \* link task -> state of its fetch_contents coroutine
  gets,           \* link task -> number of GETs issued
  inserts,        \* link task -> number of INSERTs executed
  outcome,        \* link task -> how it returned (the line it printed, if any)
  fields,         \* link task -> the fields it extracted, or NoFields
  csv,            \* the lines of scraped_data.csv
  exports,        \* number of calls of export_to_csv in this process
  firstStore,     \* the store when the first run completed
  firstClean,     \* no sitemap fetch, page fetch or INSERT of the first run raised
  pageIn,         \* page extraction on its own: the page handed to it
  extracted,      \* page extraction on its own: the fields it gave, or NoFields
  xPc             \* page extraction on its own: "page", then "extracted"

harvestVars ==
  <<sitemapDoc, run, mainPc, store, lock, existing_urls, seedPc, seedGets,
    seedRes, pages, exRes, links, taskPc, gets, inserts, outcome, fields,
    csv, exports, firstStore, firstClean>>
extractVars == <<pageIn, extracted, xPc>>
vars == <<harvestVars, extractVars>>

remoteVars == <<sitemapDoc>>
seedVars == <<seedPc, seedGets, seedRes>>
taskVars == <<taskPc, gets, inserts, outcome, fields>>
ghostVars == <<firstStore, firstClean>>

Tasks == 1..Len(links)
sitemap_pages == SelectSeq(pages, Truthy)
Urls(rows) == {rows[k].url : k \in 1..Len(rows)}

Init ==
  /\ sitemapDoc \in [Seeds -> SitemapDocs]
  /\ Len(Flatten([s \in Seeds |-> extract_links(sitemapDoc[s])])) <= MaxLinks
  /\ run = 1
  /\ mainPc = "init_db"
  /\ store = <<>>
  /\ lock = 0
  /\ existing_urls = {}
  /\ seedPc = [s \in Seeds |-> "new"]
  /\ seedGets = [s \in Seeds |-> 0]
  /\ seedRes = <<>>
  /\ pages = <<>>
  /\ exRes = <<>>
  /\ links = <<>>
  /\ taskPc = <<>>
  /\ gets = <<>>
  /\ inserts = <<>>
  /\ outcome = <<>>
  /\ fields = <<>>
  /\ csv = <<>>
  /\ firstStore = <<>>
  /\ firstClean = TRUE
  /\ exports = 0
  /\ pageIn = [part_cell |-> <<>>, rows |-> <<>>]
  /\ extracted = NoFields
  /\ xPc = "idle"

(* ------------------------------- main ---------------------------------- *)
\* variant: init_db drops and recreates the table
InitDbRecreate ==
  /\ mainPc = "init_db"
  /\ mainPc' = "load"
  /\ store' = <<>>
  /\ UNCHANGED <<extractVars, exports, sitemapDoc, run, lock, existing_urls, seedVars, pages,
                 exRes, links, taskVars, csv, ghostVars>>

\* init_db: CREATE TABLE IF NOT EXISTS leaves an existing table as it is
InitDb ==
  /\ mainPc = "init_db"
  /\ mainPc' = "load"
  /\ UNCHANGED <<extractVars, exports, sitemapDoc, run, store, lock, existing_urls, seedVars, pages,
                 exRes, links, taskVars, csv, ghostVars>>

\* existing_urls = await get_existing_urls(); then the sitemap tasks are made
GetExistingUrls ==
  /\ mainPc = "load"
  /\ existing_urls' = Urls(store)
  /\ seedPc' = [s \in Seeds |-> "ready"]
  /\ mainPc' = "sitemaps"
  /\ UNCHANGED <<extractVars, exports, sitemapDoc, run, store, lock, seedGets, seedRes, pages, exRes,
                 links, taskVars, csv, ghostVars>>

\* fetch_url up to its await: the GET is sent
SeedGet(s) ==
  /\ mainPc = "sitemaps"
  /\ seedPc[s] = "ready"
  /\ seedPc' = [seedPc EXCEPT ![s] = "get"]
  /\ seedGets' = [seedGets EXCEPT ![s] = @ + 1]
  /\ UNCHANGED <<extractVars, exports, sitemapDoc, run, mainPc, store, lock, existing_urls, seedRes,
                 pages, exRes, links, taskVars, csv, ghostVars>>

\* fetch_url: return response.text
SeedReturns(s) ==
  /\ mainPc = "sitemaps"
  /\ seedPc[s] = "get"
  /\ seedPc' = [seedPc EXCEPT ![s] = "done"]
  /\ seedRes' = Append(seedRes, <<s, sitemapDoc[s]>>)
  /\ UNCHANGED <<extractVars, exports, sitemapDoc, run, mainPc, store, lock, existing_urls, seedGets,
                 pages, exRes, links, taskVars, csv, ghostVars>>

\* variant: a failed fetch_url returns the empty text instead of None
SeedRaisesEmpty(s) ==
  /\ mainPc = "sitemaps"
  /\ seedPc[s] = "get"
  /\ \E e \in GetExceptions :
       /\ seedPc' = [seedPc EXCEPT ![s] = e]
       /\ seedRes' = Append(seedRes, <<s, <<>>>>)
  /\ firstClean' = (firstClean /\ run # 1)
  /\ UNCHANGED <<extractVars, exports, sitemapDoc, run, mainPc, store, lock, existing_urls, seedGets,
                 pages, exRes, links, taskVars, csv, firstStore>>

\* fetch_url: except Exception: print, return None
SeedRaises(s) ==
  /\ mainPc = "sitemaps"
  /\ seedPc[s] = "get"
  /\ \E e \in GetExceptions :
       /\ seedPc' = [seedPc EXCEPT ![s] = e]
       /\ seedRes' = Append(seedRes, <<s, None>>)
  /\ firstClean' = (firstClean /\ run # 1)
  /\ UNCHANGED <<extractVars, exports, sitemapDoc, run, mainPc, store, lock, existing_urls, seedGets,
                 pages, exRes, links, taskVars, csv, firstStore>>

SeedSettled(s) == seedPc[s] \notin {"new", "ready", "get"}

\* variant: main goes on as soon as one fetch_url task is done, taking None
\* for the others
GatherPagesEarly ==
  /\ mainPc = "sitemaps"
  /\ \E s \in Seeds : SeedSettled(s)
  /\ pages' = [s \in Seeds |->
                 IF \E k \in 1..Len(seedRes) : seedRes[k][1] = s
                 THEN seedRes[CHOOSE k \in 1..Len(seedRes) : seedRes[k][1] = s][2]
                 ELSE None]
  /\ mainPc' = "extract"
  /\ UNCHANGED <<extractVars, exports, sitemapDoc, run, store, lock, existing_urls, seedVars, exRes,
                 links, taskVars, csv, ghostVars>>

\* pages = await gather(...) returns once every fetch_url task is done
GatherPages ==
  /\ mainPc = "sitemaps"
  /\ \A s \in Seeds : SeedSettled(s)
  /\ pages' = GatherResults(seedRes)
  /\ mainPc' = "extract"
  /\ UNCHANGED <<extractVars, exports, sitemapDoc, run, store, lock, existing_urls, seedVars, exRes,
                 links, taskVars, csv, ghostVars>>

ExDone(k) == \E j \in 1..Len(exRes) : exRes[j][1] = k

\* one extract_links task; it has no await and runs in one piece
ExtractLinks(k) ==
  /\ mainPc = "extract"
  /\ k \in 1..Len(sitemap_pages)
  /\ ~ExDone(k)
  /\ exRes' = Append(exRes, <<k, extract_links(sitemap_pages[k])>>)
  /\ UNCHANGED <<extractVars, exports, sitemapDoc, run, mainPc, store, lock, existing_urls, seedVars,
                 pages, links, taskVars, csv, ghostVars>>

\* sitemap_links = await gather(...); the flattening; the link tasks are made
GatherLinks ==
  /\ mainPc = "extract"
  /\ \A k \in 1..Len(sitemap_pages) : ExDone(k)
  /\ links' = Flatten(GatherResults(exRes))
  /\ taskPc' = [i \in 1..Len(links') |-> "ready"]
  /\ gets' = [i \in 1..Len(links') |-> 0]
  /\ inserts' = [i \in 1..Len(links') |-> 0]
  /\ outcome' = [i \in 1..Len(links') |-> "none"]
  /\ fields' = [i \in 1..Len(links') |-> NoFields]
  /\ mainPc' = "links"
  /\ UNCHANGED <<extractVars, exports, sitemapDoc, run, store, lock, existing_urls, seedVars, pages,
                 exRes, csv, ghostVars>>

(* ---------------------------- link tasks ------------------------------- *)
\* variant: the membership test is missing
AlreadyProcessedNever(link, existing) == FALSE

\* if link in existing_urls
AlreadyProcessed(link, existing) == link \in existing

\* variant: the url column is not declared UNIQUE
UniqueViolationOff(rows, url) == FALSE

\* the UNIQUE constraint on pages.url, as the INSERT checks it
UniqueViolation(rows, url) == url \in Urls(rows)

\* the decorator on save_to_sqlite: whether an exception raised by the body
\* on the given attempt leads to another attempt
RetriesSave(exception, attempt) ==
  exception \in RetryExceptionTypes /\ attempt < StopAfterAttempt

\* fetch_contents: the link is already known; print and return
SkipLink(i) ==
  /\ mainPc = "links"
  /\ taskPc[i] = "ready"
  /\ AlreadyProcessed(links[i], existing_urls)
  /\ taskPc' = [taskPc EXCEPT ![i] = "done"]
  /\ outcome' = [outcome EXCEPT ![i] = "skipped"]
  /\ UNCHANGED <<extractVars, exports, sitemapDoc, run, mainPc, store, lock, existing_urls, seedVars,
                 pages, exRes, links, gets, inserts, fields, csv, ghostVars>>

\* fetch_contents up to its first await: the GET is sent
GetLink(i) ==
  /\ mainPc = "links"
  /\ taskPc[i] = "ready"
  /\ ~AlreadyProcessed(links[i], existing_urls)
  /\ taskPc' = [taskPc EXCEPT ![i] = "get"]
  /\ gets' = [gets EXCEPT ![i] = @ + 1]
  /\ UNCHANGED <<extractVars, exports, sitemapDoc, run, mainPc, store, lock, existing_urls, seedVars,
                 pages, exRes, links, inserts, outcome, fields, csv, ghostVars>>

\* what the Selector and the extraction of fetch_contents give for the page
\* of each link (the site does not change)
PageParses == [l \in Links |-> Parses(PageOf(l))]
PageFields ==
  [l \in Links |-> IF Parses(PageOf(l)) THEN ExtractFields(PageOf(l)) ELSE NoFields]

\* the GET returns; the page is parsed and the fields extracted; with a
\* non-empty field save_to_sqlite is entered and awaits its connection
GetReturns(i) ==
  /\ mainPc = "links"
  /\ taskPc[i] = "get"
  /\ IF ~PageParses[links[i]]
     THEN /\ taskPc' = [taskPc EXCEPT ![i] = "done"]
          /\ outcome' = [outcome EXCEPT ![i] = "parse_error"]
          /\ UNCHANGED fields
     ELSE /\ fields' = [fields EXCEPT ![i] = PageFields[links[i]]]
          /\ IF AnyField(PageFields[links[i]])
             THEN /\ taskPc' = [taskPc EXCEPT ![i] = "insert"]
                  /\ UNCHANGED outcome
             ELSE /\ taskPc' = [taskPc EXCEPT ![i] = "done"]
                  /\ outcome' = [outcome EXCEPT ![i] = "empty"]
  /\ UNCHANGED <<extractVars, exports, sitemapDoc, run, mainPc, store, lock, existing_urls, seedVars,
                 pages, exRes, links, gets, inserts, csv, ghostVars>>

\* variant: the GET of a link is retried on any exception
GetRaisesRetrying(i) ==
  /\ mainPc = "links"
  /\ taskPc[i] = "get"
  /\ IF gets[i] < StopAfterAttempt
     THEN /\ gets' = [gets EXCEPT ![i] = @ + 1]
          /\ UNCHANGED <<taskPc, outcome, firstClean>>
     ELSE /\ \E e \in GetExceptions : outcome' = [outcome EXCEPT ![i] = e]
          /\ taskPc' = [taskPc EXCEPT ![i] = "done"]
          /\ firstClean' = (firstClean /\ run # 1)
          /\ UNCHANGED gets
  /\ UNCHANGED <<extractVars, exports, sitemapDoc, run, mainPc, store, lock, existing_urls, seedVars,
                 pages, exRes, links, inserts, fields, csv, firstStore>>

\* variant: fetch_contents has no except clause; the exception leaves gather
\* and the tasks that are not done are cancelled
GetRaisesPropagates(i) ==
  /\ mainPc = "links"
  /\ taskPc[i] = "get"
  /\ \E e \in GetExceptions :
       outcome' = [j \in Tasks |->
                    IF j = i THEN e
                    ELSE IF taskPc[j] = "done" THEN outcome[j] ELSE "cancelled"]
  /\ taskPc' = [j \in Tasks |-> "done"]
  /\ lock' = 0
  /\ firstClean' = (firstClean /\ run # 1)
  /\ UNCHANGED <<extractVars, exports, sitemapDoc, run, mainPc, store, existing_urls, seedVars,
                 pages, exRes, links, gets, inserts, fields, csv, firstStore>>

\* the GET raises; except Exception: print, return None
GetRaises(i) ==
  /\ mainPc = "links"
  /\ taskPc[i] = "get"
  /\ \E e \in GetExceptions : outcome' = [outcome EXCEPT ![i] = e]
  /\ taskPc' = [taskPc EXCEPT ![i] = "done"]
  /\ firstClean' = (firstClean /\ run # 1)
  /\ UNCHANGED <<extractVars, exports, sitemapDoc, run, mainPc, store, lock, existing_urls, seedVars,
                 pages, exRes, links, gets, inserts, fields, csv, firstStore>>

\* variant: save_to_sqlite has no except clause for the IntegrityError, which
\* reaches fetch_contents as an error
ExecuteInsertUncaught(i) ==
  /\ mainPc = "links"
  /\ taskPc[i] = "insert"
  /\ lock = 0
  /\ inserts' = [inserts EXCEPT ![i] = @ + 1]
  /\ IF UniqueViolation(store, links[i])
     THEN /\ taskPc' = [taskPc EXCEPT ![i] = "done"]
          /\ outcome' = [outcome EXCEPT ![i] = "store_error"]
          /\ UNCHANGED lock
     ELSE /\ taskPc' = [taskPc EXCEPT ![i] = "commit"]
          /\ lock' = i
          /\ UNCHANGED outcome
  /\ UNCHANGED <<extractVars, exports, sitemapDoc, run, mainPc, store, existing_urls, seedVars,
                 pages, exRes, links, gets, fields, csv, ghostVars>>

\* variant: the statement is INSERT OR REPLACE; a row with the same url is
\* deleted and the new row takes its place at the commit
ExecuteInsertReplace(i) ==
  /\ mainPc = "links"
  /\ taskPc[i] = "insert"
  /\ lock = 0
  /\ inserts' = [inserts EXCEPT ![i] = @ + 1]
  /\ store' = [k \in 1..(Len(store) - Cardinality({j \in 1..Len(store) : store[j].url = links[i]}))
                |-> store[CHOOSE j \in 1..Len(store) :
                      /\ store[j].url # links[i]
                      /\ Cardinality({m \in 1..j : store[m].url # links[i]}) = k]]
  /\ taskPc' = [taskPc EXCEPT ![i] = "commit"]
  /\ lock' = i
  /\ UNCHANGED <<extractVars, exports, sitemapDoc, run, mainPc, existing_urls, seedVars,
                 pages, exRes, links, gets, outcome, fields, csv, ghostVars>>

\* save_to_sqlite: the INSERT runs while no other connection holds the write
\* lock; an IntegrityError is caught and the skip printed
ExecuteInsert(i) ==
  /\ mainPc = "links"
  /\ taskPc[i] = "insert"
  /\ lock = 0
  /\ inserts' = [inserts EXCEPT ![i] = @ + 1]
  /\ IF UniqueViolation(store, links[i])
     THEN /\ taskPc' = [taskPc EXCEPT ![i] = "done"]
          /\ outcome' = [outcome EXCEPT ![i] = "duplicate"]
          /\ UNCHANGED lock
     ELSE /\ taskPc' = [taskPc EXCEPT ![i] = "commit"]
          /\ lock' = i
          /\ UNCHANGED outcome
  /\ UNCHANGED <<extractVars, exports, sitemapDoc, run, mainPc, store, existing_urls, seedVars,
                 pages, exRes, links, gets, fields, csv, ghostVars>>

\* save_to_sqlite: the INSERT finds the database locked by another
\* connection's open transaction for longer than the busy timeout and raises
\* OperationalError; the decorator does not retry it and fetch_contents
\* catches it
InsertLocked(i) ==
  /\ mainPc = "links"
  /\ taskPc[i] = "insert"
  /\ lock # 0
  /\ inserts' = [inserts EXCEPT ![i] = @ + 1]
  /\ IF RetriesSave("OperationalError", inserts'[i])
     THEN UNCHANGED <<taskPc, outcome>>
     ELSE /\ taskPc' = [taskPc EXCEPT ![i] = "done"]
          /\ outcome' = [outcome EXCEPT ![i] = "store_error"]
  /\ firstClean' = (firstClean /\ run # 1)
  /\ UNCHANGED <<extractVars, exports, sitemapDoc, run, mainPc, store, lock, existing_urls, seedVars,
                 pages, exRes, links, gets, fields, csv, firstStore>>

\* variant: the stored url is added to existing_urls during the run
CommitUpdatesKeys(i) ==
  /\ mainPc = "links"
  /\ taskPc[i] = "commit"
  /\ store' = Append(store, RowOf(links[i], fields[i]))
  /\ existing_urls' = existing_urls \cup {links[i]}
  /\ lock' = 0
  /\ taskPc' = [taskPc EXCEPT ![i] = "done"]
  /\ outcome' = [outcome EXCEPT ![i] = "stored"]
  /\ UNCHANGED <<extractVars, exports, sitemapDoc, run, mainPc, seedVars, pages, exRes,
                 links, gets, inserts, fields, csv, ghostVars>>

\* variant: the fields are kept in variables the link tasks share, so the row
\* holds the fields of the task that extracted last before the INSERT
CommitShared(i) ==
  /\ mainPc = "links"
  /\ taskPc[i] = "commit"
  /\ \E j \in Tasks :
       /\ fields[j] # NoFields
       /\ store' = Append(store, RowOf(links[i], fields[j]))
  /\ lock' = 0
  /\ taskPc' = [taskPc EXCEPT ![i] = "done"]
  /\ outcome' = [outcome EXCEPT ![i] = "stored"]
  /\ UNCHANGED <<extractVars, exports, sitemapDoc, run, mainPc, existing_urls, seedVars, pages, exRes,
                 links, gets, inserts, fields, csv, ghostVars>>

\* save_to_sqlite: conn.commit(); the row becomes visible, the lock is freed
Commit(i) ==
  /\ mainPc = "links"
  /\ taskPc[i] = "commit"
  /\ store' = Append(store, RowOf(links[i], fields[i]))
  /\ lock' = 0
  /\ taskPc' = [taskPc EXCEPT ![i] = "done"]
  /\ outcome' = [outcome EXCEPT ![i] = "stored"]
  /\ UNCHANGED <<extractVars, exports, sitemapDoc, run, mainPc, existing_urls, seedVars, pages, exRes,
                 links, gets, inserts, fields, csv, ghostVars>>

\* variant: main goes on only when no link task has failed to fetch its page
GatherContentsUnfailed ==
  /\ mainPc = "links"
  /\ \A i \in Tasks : taskPc[i] = "done" /\ outcome[i] \notin GetExceptions
  /\ mainPc' = "completed"
  /\ firstStore' = IF run = 1 THEN store ELSE firstStore
  /\ UNCHANGED <<extractVars, exports, sitemapDoc, run, store, lock, existing_urls, seedVars, pages,
                 exRes, links, taskVars, csv, firstClean>>

\* await gather(*link_tasks) returns once every link task is done; main
\* prints the completion line and asyncio.run returns
GatherContents ==
  /\ mainPc = "links"
  /\ \A i \in Tasks : taskPc[i] = "done"
  /\ mainPc' = "completed"
  /\ firstStore' = IF run = 1 THEN store ELSE firstStore
  /\ UNCHANGED <<extractVars, exports, sitemapDoc, run, store, lock, existing_urls, seedVars, pages,
                 exRes, links, taskVars, csv, firstClean>>

CsvHeader == <<"url", "part_no", "adaptable_for", "orig_part_no">>
CsvRow(r) == <<r.url, r.part_no, r.adaptable_for, r.orig_part_no>>

\* variant: the export is called without waiting for the link tasks
export_to_csvEarly ==
  /\ mainPc = "links"
  /\ csv' = <<CsvHeader>> \o [k \in 1..Len(store) |-> CsvRow(store[k])]
  /\ mainPc' = "exported"
  /\ exports' = exports + 1
  /\ UNCHANGED <<extractVars, sitemapDoc, run, store, lock, existing_urls, seedVars, pages,
                 exRes, links, taskVars, ghostVars>>

\* export_to_csv: the header, then one line per row of the SELECT
export_to_csv ==
  /\ mainPc = "completed"
  /\ csv' = <<CsvHeader>> \o [k \in 1..Len(store) |-> CsvRow(store[k])]
  /\ mainPc' = "exported"
  /\ exports' = exports + 1
  /\ UNCHANGED <<extractVars, sitemapDoc, run, store, lock, existing_urls, seedVars, pages,
                 exRes, links, taskVars, ghostVars>>

\* the process is started again; the database file and the site are the same
Rerun ==
  /\ mainPc = "exported"
  /\ run < MaxRuns
  /\ run' = run + 1
  /\ mainPc' = "init_db"
  /\ existing_urls' = {}
  /\ seedPc' = [s \in Seeds |-> "new"]
  /\ seedGets' = [s \in Seeds |-> 0]
  /\ seedRes' = <<>>
  /\ pages' = <<>>
  /\ exRes' = <<>>
  /\ links' = <<>>
  /\ taskPc' = <<>>
  /\ gets' = <<>>
  /\ inserts' = <<>>
  /\ outcome' = <<>>
  /\ fields' = <<>>
  /\ exports' = 0
  /\ UNCHANGED <<extractVars, sitemapDoc, store, lock, csv, ghostVars>>

Next ==
  \/ InitDb
  \/ GetExistingUrls
  \/ \E s \in Seeds : SeedGet(s)
  \/ \E s \in Seeds : SeedReturns(s)
  \/ \E s \in Seeds : SeedRaises(s)
  \/ GatherPages
  \/ \E k \in 1..NumSeeds : ExtractLinks(k)
  \/ GatherLinks
  \/ \E i \in Tasks : SkipLink(i)
  \/ \E i \in Tasks : GetLink(i)
  \/ \E i \in Tasks : GetReturns(i)
  \/ \E i \in Tasks : GetRaises(i)
  \/ \E i \in Tasks : ExecuteInsert(i)
  \/ \E i \in Tasks : InsertLocked(i)
  \/ \E i \in Tasks : Commit(i)
  \/ GatherContents
  \/ export_to_csv
  \/ Rerun

Spec == Init /\ [][Next]_vars

\* The event loop runs a coroutine that is ready, and every GET and every
\* store operation returns or raises: a process that can take a step takes
\* one.  Nothing makes anyone start the process again.
Progress == mainPc # "exported" /\ Next

FairSpec == Spec /\ WF_vars(Progress)

(* ----------------------- page extraction alone ------------------------ *)
\* the cell texts of the pages handed to the extraction
Cells == {<<>>, <<"X">>, <<"Y", " ">>}
PartCells == {<<>>, <<" ", "X">>}
RowSeqs == UNION {[1..n -> Cells \X Cells] : n \in 0..MaxRows}

InitExtract ==
  /\ pageIn \in [part_cell : PartCells, rows : RowSeqs]
  /\ extracted = NoFields
  /\ xPc = "page"
  /\ sitemapDoc = [s \in Seeds |-> <<>>]
  /\ run = 1
  /\ mainPc = "init_db"
  /\ store = <<>>
  /\ lock = 0
  /\ existing_urls = {}
  /\ seedPc = [s \in Seeds |-> "new"]
  /\ seedGets = [s \in Seeds |-> 0]
  /\ seedRes = <<>>
  /\ pages = <<>>
  /\ exRes = <<>>
  /\ links = <<>>
  /\ taskPc = <<>>
  /\ gets = <<>>
  /\ inserts = <<>>
  /\ outcome = <<>>
  /\ fields = <<>>
  /\ csv = <<>>
  /\ exports = 0
  /\ firstStore = <<>>
  /\ firstClean = TRUE

\* fetch_contents from the Selector to the two strip_it calls, on pageIn
ExtractPage ==
  /\ xPc = "page"
  /\ Parses(pageIn)
  /\ extracted' = ExtractFields(pageIn)
  /\ xPc' = "extracted"
  /\ UNCHANGED <<pageIn, harvestVars>>

NextExtract == ExtractPage

SpecExtract == InitExtract /\ [][NextExtract]_vars

(* ------------------------------ properties ----------------------------- *)
RowsFor(url) == {k \in 1..Len(store) : store[k].url = url}
InsertDecided(i) == outcome[i] \in {"stored", "duplicate"}
FetchFailed(i) == outcome[i] \in GetExceptions
Failed(i) == FetchFailed(i) \/ outcome[i] \in {"parse_error", "store_error"}
Extracted(i) == fields[i] # NoFields
LinksMade == mainPc \in {"links", "completed", "exported"}

\* the <loc> texts a document was built from, in document order
DocLocs(doc) ==
  IF \E ls \in LinkSeqs : doc = SitemapOf(ls)
  THEN CHOOSE ls \in LinkSeqs : doc = SitemapOf(ls)
  ELSE <<>>

RetryBound ==
  /\ \A s \in Seeds : seedPc[s] \in RetryExceptionTypes => seedGets[s] = StopAfterAttempt
  /\ \A i \in Tasks : outcome[i] \in RetryExceptionTypes => gets[i] = StopAfterAttempt

\* C3: a fetch (sitemap or page) that failed with an exception outside the
\* retry set has been attempted exactly once.
NoRetryOfOther ==
  /\ \A s \in Seeds :
       (SeedSettled(s) /\ seedPc[s] \in GetExceptions \ RetryExceptionTypes)
         => seedGets[s] = 1
  /\ \A i \in Tasks :
       (FetchFailed(i) /\ outcome[i] \notin RetryExceptionTypes) => gets[i] = 1

\* a page fetch and a sitemap fetch have failed with a Timeout
NoRetryOfOtherWitness ==
  /\ \E i \in Tasks : outcome[i] = Timeout /\ taskPc[i] = "done"
  /\ \E s \in Seeds : seedPc[s] = Timeout

\* C4: every stored row has a non-empty part_no, adaptable_for or
\* orig_part_no, and a link task whose extraction gave three empty fields
\* executes no INSERT.
FieldPresence ==
  /\ \A k \in 1..Len(store) :
       store[k].part_no # <<>> \/ store[k].adaptable_for # <<>>
         \/ store[k].orig_part_no # <<>>
  /\ \A i \in Tasks :
       (Extracted(i) /\ fields[i].part_no = <<>> /\ fields[i].adaptable_for = <<>>
          /\ fields[i].orig_part_no = <<>>)
         => (inserts[i] = 0 /\ taskPc[i] = "done" /\ outcome[i] = "empty")

\* a task extracted three empty fields beside a task that stored a row
FieldPresenceWitness ==
  /\ \E i \in Tasks : outcome[i] = "empty" /\ links[i] = "/e"
  /\ \E i \in Tasks : outcome[i] = "stored"

PreFilter ==
  \A i \in Tasks :
    links[i] \in existing_urls =>
      /\ gets[i] = 0 /\ inserts[i] = 0
      /\ \/ taskPc[i] = "ready" /\ outcome[i] = "none"
         \/ taskPc[i] = "done" /\ outcome[i] = "skipped"

\* a link of existing_urls has been skipped beside a link that was fetched
PreFilterWitness ==
  /\ \E i \in Tasks : links[i] \in existing_urls /\ outcome[i] = "skipped"
  /\ \E i \in Tasks : links[i] \notin existing_urls /\ gets[i] = 1

PhaseBarrier ==
  /\ (\E k \in Seeds : ExDone(k)) => \A s \in Seeds : SeedSettled(s)
  /\ (\E i \in Tasks : taskPc[i] # "ready") =>
       /\ \A s \in Seeds : SeedSettled(s)
       /\ \A k \in 1..Len(sitemap_pages) : ExDone(k)
  /\ (\E s \in Seeds : seedPc[s] \notin {"new", "ready"}) =>
       mainPc \notin {"init_db", "load"}
  /\ (mainPc = "sitemaps" /\ \E s \in Seeds : seedGets[s] > 0) =>
       existing_urls = Urls(store)

\* a link task is in flight in a run that loaded stored urls and extracted
\* the links of two sitemaps
PhaseBarrierWitness ==
  /\ mainPc = "links" /\ existing_urls # {} /\ Len(exRes) = 2
  /\ \E i \in Tasks : taskPc[i] = "get"

\* the flattened sequence the claims C9 and C10 expect: the <loc> texts of
\* the sitemaps whose fetch returned, by seed, in document order
ExpectedLinks(s) ==
  IF seedPc[s] = "done" THEN DocLocs(sitemapDoc[s]) ELSE <<>>

\* C9: once the link sequence is made, it is the <loc> texts of the first
\* seed's document followed by those of the second seed's, each in document
\* order and with duplicates kept, a seed whose fetch failed giving none.
LinkOrdering ==
  LinksMade => links = ExpectedLinks(1) \o ExpectedLinks(2)

\* the second seed's tasks completed first, and the sequence holds the first
\* seed's two links, then the second seed's link, which repeats one of them
LinkOrderingWitness ==
  /\ LinksMade
  /\ Len(seedRes) = 2 /\ Len(exRes) = 2
  /\ seedRes[1][1] = 2 /\ exRes[1][1] = 2
  /\ Len(links) = 3 /\ links[1] # links[2] /\ links[3] = links[1]
  /\ Len(DocLocs(sitemapDoc[1])) = 2

\* C10: a seed whose fetch raised yields None in pages; when the other
\* seed's fetch returned, the link sequence is that seed's <loc> texts, each
\* has a link task, and these are all done when main completes.
SeedFailure ==
  \A s, t \in Seeds :
    (s # t /\ seedPc[s] \in GetExceptions /\ seedPc[t] = "done"
       /\ mainPc \in {"extract", "links", "completed", "exported"})
      => /\ pages[s] = None /\ pages[t] = sitemapDoc[t]
         /\ Len(sitemap_pages) = (IF sitemapDoc[t] = <<>> THEN 0 ELSE 1)
         /\ LinksMade =>
              /\ links = DocLocs(sitemapDoc[t])
              /\ DOMAIN taskPc = 1..Len(links)
              /\ mainPc # "links" => \A i \in Tasks : taskPc[i] = "done"

\* the first seed's fetch raised and a link of the second seed was stored
SeedFailureWitness ==
  /\ seedPc[1] \in GetExceptions /\ seedPc[2] = "done"
  /\ mainPc = "completed" /\ Len(links) = 2
  /\ \E i \in Tasks : outcome[i] = "stored"

AppendOnly ==
  [][/\ Len(store') >= Len(store)
     /\ \A k \in 1..Len(store) : store'[k] = store[k]]_vars

\* a second run has added a row after the rows of the first run
AppendOnlyWitness ==
  /\ run = 2 /\ Len(firstStore) >= 1 /\ Len(store) > Len(firstStore)
  /\ \E i \in Tasks : outcome[i] = "skipped"

\* the entries of a comma-joined string, as str.split(", ") gives them
RECURSIVE SplitFrom(_, _)
SplitFrom(s, cur) ==
  IF s = <<>> THEN <<cur>>
  ELSE IF Len(s) >= 2 /\ s[1] = "," /\ s[2] = " "
       THEN <<cur>> \o SplitFrom(SubSeq(s, 3, Len(s)), <<>>)
       ELSE SplitFrom(Tail(s), Append(cur, Head(s)))
Entries(s) == SplitFrom(s, <<>>)

IsPrefix(p, s) == Len(p) <= Len(s) /\ SubSeq(s, 1, Len(p)) = p
JoinedColumn(n) == Join(Column(pageIn.rows, n))

\* C13: the adaptable_for and the orig_part_no extracted from a page have
\* the same number of entries, and entry i of each is the cell text of table
\* row i.
ParallelLists ==
  xPc = "extracted" =>
    LET a == Entries(extracted.adaptable_for)
        o == Entries(extracted.orig_part_no)
    IN /\ Len(a) = Len(o)
       /\ \A i \in 1..Len(a) :
            i <= Len(pageIn.rows) =>
              /\ a[i] = Strip(pageIn.rows[i][1])
              /\ i <= Len(o) => o[i] = Strip(pageIn.rows[i][2])

\* a comma, then whitespace only, at the end of the string
HasTrailingComma(s) == EndsWithComma(RStrip(s, Whitespace))

\* C14: the strings strip_it returns for the two joined columns have no
\* trailing comma with optional whitespace, and "X, Y, , " is returned as
\* "X, Y".
TrailingCommaCleanup ==
  xPc = "extracted" =>
    /\ ~HasTrailingComma(extracted.adaptable_for)
    /\ ~HasTrailingComma(extracted.orig_part_no)
    /\ JoinedColumn(1) = <<"X", ",", " ", "Y", ",", " ", ",", " ">>
         => extracted.adaptable_for = <<"X", ",", " ", "Y">>

\* the column "X", "Y", "", "" has been joined and cleaned in two passes
TrailingCommaCleanupWitness ==
  /\ xPc = "extracted"
  /\ JoinedColumn(1) = <<"X", ",", " ", "Y", ",", " ", ",", " ">>
  /\ strip_itOnce(JoinedColumn(1)) # extracted.adaptable_for
  /\ extracted.adaptable_for = <<"X", ",", " ", "Y">>

\* C17: the string strip_it returns for a joined column is a prefix of that
\* joined column.
StripOnlyFromEnd ==
  xPc = "extracted" =>
    /\ IsPrefix(extracted.adaptable_for, JoinedColumn(1))
    /\ IsPrefix(extracted.orig_part_no, JoinedColumn(2))

\* C15: export_to_csv has run at most once in a process, and has run
\* exactly when the process is past it; then every fetch_url and link task is
\* done and the file holds the header line followed by one line per stored
\* row, in the order of the rows.
ExportOnce ==
  /\ exports <= 1
  /\ exports = 1 <=> mainPc = "exported"
  /\ mainPc = "exported" =>
       /\ \A s \in Seeds : SeedSettled(s)
       /\ \A i \in Tasks : taskPc[i] = "done"
       /\ lock = 0
       /\ Len(csv) = Len(store) + 1
       /\ csv[1] = <<"url", "part_no", "adaptable_for", "orig_part_no">>
       /\ \A k \in 1..Len(store) :
            csv[k + 1] = <<store[k].url, store[k].part_no,
                           store[k].adaptable_for, store[k].orig_part_no>>

\* the second process has exported the two rows its link tasks left
ExportOnceWitness ==
  /\ mainPc = "exported" /\ run = 2 /\ exports = 1
  /\ Len(store) = 2 /\ Len(csv) = 3
  /\ \E i \in Tasks : outcome[i] = "stored"

\* the number of link tasks of a link, and of those that sent a GET
Occurrences(link) == Cardinality({i \in Tasks : links[i] = link})
Fetches(link) == Cardinality({i \in Tasks : links[i] = link /\ gets[i] = 1})

\* C16: existing_urls never holds a url stored in this run; every started
\* link task whose link is not in it has sent exactly one GET, also when a
\* sibling has stored that url, so that a link occurring k times is fetched k
\* times by the time main completes; and no url has more than one row.
WithinRunDuplicates ==
  LinksMade =>
    /\ \A i \in Tasks : outcome[i] = "stored" => links[i] \notin existing_urls
    /\ \A i \in Tasks :
         (links[i] \notin existing_urls /\ taskPc[i] # "ready") => gets[i] = 1
    /\ \A i \in Tasks : Cardinality(RowsFor(links[i])) <= 1
    /\ mainPc # "links" =>
         \A l \in Links \ existing_urls : Fetches(l) = Occurrences(l)

\* a link that occurs twice is being fetched again while its row is stored
WithinRunDuplicatesWitness ==
  \E i, j \in Tasks :
    /\ i # j /\ links[i] = links[j]
    /\ outcome[i] = "stored" /\ taskPc[j] = "get" /\ gets[j] = 1
    /\ Cardinality(RowsFor(links[i])) = 1

\* C18: once the link tasks are made, every row whose url was not in
\* existing_urls was stored by a link task of that url, from the fields that
\* task extracted from the page of that url.
Provenance ==
  LinksMade =>
    \A k \in 1..Len(store) :
      store[k].url \notin existing_urls =>
        \E i \in Tasks :
          /\ links[i] = store[k].url
          /\ outcome[i] = "stored"
          /\ fields[i] = ExtractFields(PageOf(links[i]))
          /\ store[k] = [url |-> links[i], part_no |-> fields[i].part_no,
                         adaptable_for |-> fields[i].adaptable_for,
                         orig_part_no |-> fields[i].orig_part_no]

\* two tasks with different pages interleaved their INSERTs and both rows
\* are stored
ProvenanceWitness ==
  /\ Len(store) = 2 /\ store[1].url = "/r" /\ store[2].url = "/p"
  /\ \E i, j \in Tasks :
       /\ i < j /\ links[i] = "/p" /\ links[j] = "/r"
       /\ outcome[i] = "stored" /\ outcome[j] = "stored"
       /\ store[1].part_no # store[2].part_no

\* C19: a process that has started gets to the end of its export, with
\* every link task done, whatever fetches, parses and INSERTs fail on the way.
Termination ==
  \A r \in 1..MaxRuns :
    (run = r /\ mainPc = "init_db")
      ~> (run = r /\ mainPc = "exported" /\ \A i \in Tasks : taskPc[i] = "done")

\* a process has exported after a fetch error and a key collision among
\* its link tasks, and another after a parse error and a refused INSERT
TerminationWitness ==
  /\ mainPc = "exported"
  /\ \/ \E i, j, k \in Tasks :
          /\ FetchFailed(i) /\ outcome[j] = "duplicate" /\ outcome[k] = "stored"
     \/ \E i, j, k \in Tasks :
          /\ outcome[i] = "parse_error" /\ outcome[j] = "store_error"
          /\ outcome[k] = "stored"

====
